---- MODULE Spec2Model ----
(***************************************************************************)
(* Model of the Windows automation client of the Box OCR prescription      *)
(* workflow (windows-client/windows_automation_client.py).                 *)
(*                                                                         *)
(* One run of WindowsAutomationClient.run_complete_workflow is a single    *)
(* sequential thread: pc is the statement it is blocked on (an HTTP round  *)
(* trip, a time.sleep, a pyautogui call, webbrowser.open).  The provider's *)
(* HTTP answers and the outcome of each injected call are inputs.  The     *)
(* only concurrent actor is the user's mouse: pyautogui (FAILSAFE = True)  *)
(* polls the pointer position at the entry of every pyautogui call and     *)
(* raises FailSafeException when the pointer is in the screen corner.      *)
(***************************************************************************)
EXTENDS Integers, Sequences, FiniteSets, TLC

\* ------------------------------------------------------------------ bounds
\* Longest drug list the provider answers with.
MaxDrugs == 2

\* ------------------------------------------------------- program constants
\* range(5, 0, -1): the countdown before the entry loop.
CountdownFrom == 5

\* The drug names the provider may answer with (DrugEntry is opaque text).
DrugNames == {"Amoxicillin 500mg", "Ibuprofen 200mg"}

\* The optional e-signature URL given on the command line (None when absent).
EsignUrls == {"None", "https://esign.health.gov"}

\* Sequences over S of length at most n.
RECURSIVE SeqsUpTo(_, _)
SeqsUpTo(S, n) ==
    IF n = 0 THEN {<<>>}
    ELSE LET shorter == SeqsUpTo(S, n - 1)
         IN  shorter \cup {Append(s, x) : s \in {t \in shorter : Len(t) = n - 1}, x \in S}

\* Optional[List[str]]: None, or a list.
None == [isNone |-> TRUE, list |-> <<>>]
Some(l) == [isNone |-> FALSE, list |-> l]

\* What GET /status can bring: requests raises ConnectionError, raises another
\* exception (timeout), answers non-200, or answers 200 with or without a
\* session object in the body.
StatusResponses == {"conn_error", "timeout", "non200", "200_session", "200_nosession"}

\* What GET /prescription/drugs can bring: an exception, a non-200 answer, or
\* 200 with a body whose 'drugs' list is the given one (absent key: []).
DrugsFailures == {"exception", "non200"}

\* POST /prescription/complete sent without a timeout to a provider that
\* accepts the connection and never answers: the call does not return.
CompleteNeverAnswers == {}

\* What POST /prescription/complete can bring.
CompleteResponses == {"exception", "non200", "200"}

\* What webbrowser.open can do: open the page, return False because no browser
\* could be launched (the return value is not read), or raise.
BrowserOutcomes == {"opened", "not_launched", "exception"}

VARIABLES
    pc,             \* the statement the run is at
    drugs,          \* the local `drugs` of run_complete_workflow (Optional list)
    idx,            \* the loop index i of enumerate(drugs, 1)
    tick,           \* the countdown's loop variable i
    mouseInCorner,  \* the pointer is in the fail-safe corner
    esignUrl,       \* the esign_url argument
    rv,             \* the return value of each step function, once it returned
    caught,         \* the function whose FailSafeException handler ran
    phases,         \* the phases entered so far, in order
    trace,          \* every observable effect so far, in order
    result,         \* the return value of run_complete_workflow
    raised,         \* where the run was when the pointer last entered the corner
    provider,       \* the provider's prescription session
    probe,          \* what the last two test_connection() calls from the menu printed
    client,         \* the fields of self (WindowsAutomationClient)
    rerun           \* the script of the environment's answers, and the previous run

vars == <<pc, drugs, idx, tick, mouseInCorner, esignUrl, rv, caught, phases, trace, result,
          raised, provider, probe, client, rerun>>

\* What the statements of a run never write: the provider's state, the menu's
\* probes, the fields of self (assigned in __init__ only) and the environment's
\* script.
outside == <<provider, probe, client, rerun>>

\* The command line's <android_ip> and the default android_port.
AndroidIps == {"192.168.1.100"}
AndroidPort == "8080"

\* WindowsAutomationClient.__init__: the fields of a new client.
NewClient(android_ip, android_port) ==
    [android_ip |-> android_ip,
     android_port |-> android_port,
     base_url |-> "http://" \o android_ip \o ":" \o android_port,
     paste_delay |-> "1.0",
     field_focus_delay |-> "0.5",
     f4_delay |-> "2.0",
     browser_delay |-> "3.0"]

\* ------------------------------------------------------------- trace events
Http(method, path, res) == [kind |-> method, arg |-> path, res |-> res]
Type(text) == [kind |-> "type", arg |-> text, res |-> "-"]
Press(key) == [kind |-> "press", arg |-> key, res |-> "-"]
Open(url) == [kind |-> "open", arg |-> url, res |-> "-"]
Sleep(what) == [kind |-> "sleep", arg |-> what, res |-> "-"]
Say(msg) == [kind |-> "print", arg |-> msg, res |-> "-"]

\* The pointer has not entered the corner yet.
NoRaise == [pc |-> "none", len |-> 0]

\* PrescriptionSession as GET /status shows it (absence is a valid state).
NoSession == [active |-> FALSE, sessionId |-> "-", patientInfo |-> "-", drugCount |-> 0]

\* No answer of the environment is pending.
NoOracle == [at |-> <<"none", 0>>, input |-> "-", mouse |-> FALSE]

\* No test_connection() call has been made from the menu yet.
NoProbe == [n |-> 0, last |-> <<>>, prev |-> <<>>, dirty |-> FALSE, stable |-> FALSE]

\* ------------------------------------------------- the step functions' code
\* test_connection: True exactly on a 200 answer, whether or not the body
\* holds a session ("No active prescription session" is only printed).
test_connection(r) == r \in {"200_session", "200_nosession"}

\* The answers of GET /prescription/drugs.
DrugsResponses ==
    {[status |-> s, drugs |-> <<>>] : s \in DrugsFailures}
    \cup {[status |-> "200", drugs |-> l] : l \in SeqsUpTo(DrugNames, MaxDrugs)}

\* get_prescription_drugs written as `return data.get('drugs') or None`.
get_prescription_drugs_or_none(r) ==
    IF r.status = "200" /\ r.drugs # <<>> THEN Some(r.drugs) ELSE None

\* get_prescription_drugs: data.get('drugs', []) on 200, None otherwise.
get_prescription_drugs(r) == IF r.status = "200" THEN Some(r.drugs) ELSE None

\* The emptiness checks written as `drugs is None`.
IsFalsyNoneOnly(x) == x.isNone

\* Python's `not drugs` on an Optional[List[str]]: None and [] are falsy.
IsFalsy(x) == x.isNone \/ Len(x.list) = 0

\* pyautogui.FAILSAFE = True: a pyautogui call raises FailSafeException at its
\* entry when the pointer is in the corner.
FailSafeCheck(mouse) == mouse

\* The outcomes of one pyautogui call (typewrite, press): the fail-safe check
\* comes first; past it the call injects its event, or raises another error.
PyAutoGuiCall(mouse) == IF FailSafeCheck(mouse) THEN {"failsafe"} ELSE {"ok", "error"}

\* The entry loop walking the list from its end.
DrugAtReversed(l, i) == l[Len(l) + 1 - i]

\* for i, drug in enumerate(drugs, 1): the drug of iteration i.
DrugAt(l, i) == l[i]

\* The loop body starting at the typing, without the wait for the field.
LoopHeadNoFocus(l, i) == IF i <= Len(l) THEN "typewrite" ELSE "paste_return"

\* The loop leaving one entry early.
LoopHeadOffByOne(l, i) == IF i < Len(l) THEN "focus_wait" ELSE "paste_return"

\* The loop head of paste_drugs_to_application: iterate, or fall out of the loop.
LoopHead(l, i) == IF i <= Len(l) THEN "focus_wait" ELSE "paste_return"

\* The FailSafeException handler of the entry loop reporting success.
PasteSwallowsFailSafe(outcome) == outcome \in {"ok", "failsafe"}

\* The return value of paste_drugs_to_application, by how its try block ended.
paste_drugs_to_application(outcome) == outcome = "ok"

\* The return value of send_prescription_to_health_department.
send_prescription_to_health_department(outcome) == outcome = "ok"

\* The return value of open_browser_for_esignature: False only on an exception.
open_browser_for_esignature(outcome) == outcome # "exception"

\* The page open_browser_for_esignature opens.
BrowserTarget(url) == IF url # "None" THEN url ELSE "about:blank"

\* The return value of complete_prescription_session.
complete_prescription_session(r) == r = "200"

\* ------------------------------------------- run_complete_workflow's if-chain
Goto(next, phase) == [pc |-> next, phase |-> phase, msgs |-> <<>>, result |-> "none"]
Return(res, msgs) == [pc |-> "done", phase |-> "", msgs |-> msgs, result |-> res]

\* Step 1 with the declared retry policy wired in: a failed test is tried again.
after_test_connection_retried(ok) ==
    IF ~ok THEN Goto("test_connection", "") ELSE Goto("get_drugs", "FetchingDrugs")

\* Step 1 with the connection test's result dropped.
after_test_connection_unchecked(ok) == Goto("get_drugs", "FetchingDrugs")

\* Step 1: if not self.test_connection(): return False
after_test_connection(ok) ==
    IF ~ok THEN Return("False", <<Say("Workflow failed: Cannot connect to Android")>>)
    ELSE Goto("get_drugs", "FetchingDrugs")

\* Step 2: if not drugs: return False
after_get_prescription_drugs(d) ==
    IF IsFalsy(d) THEN Return("False", <<Say("Workflow failed: No drugs to process")>>)
    ELSE Goto("paste_entry", "EnteringDrugs")

\* Step 3 with the entry's result dropped.
after_paste_drugs_unchecked(ok) == Goto("f4_wait", "Submitting")

\* Step 3: if not self.paste_drugs_to_application(drugs): return False
after_paste_drugs(ok) ==
    IF ~ok THEN Return("False", <<Say("Workflow failed: Could not enter drugs")>>)
    ELSE Goto("f4_wait", "Submitting")

\* Step 4 with the submission's result dropped.
after_send_prescription_unchecked(ok) == Goto("browser_wait", "AwaitingSignature")

\* Step 4: if not self.send_prescription_to_health_department(): return False
after_send_prescription(ok) ==
    IF ~ok THEN Return("False", <<Say("Workflow failed: Could not send prescription")>>)
    ELSE Goto("browser_wait", "AwaitingSignature")

\* Step 5: a browser failure is only warned about; the workflow goes on.
after_open_browser(ok) ==
    IF ~ok
    THEN [Goto("complete", "Completing") EXCEPT
             !.msgs = <<Say("Warning: Could not open browser, but continuing...")>>]
    ELSE Goto("complete", "Completing")

\* Step 6 treated like steps 1-4: a failed completion fails the workflow.
after_complete_session_checked(ok) ==
    IF ~ok THEN Return("False", <<Say("Workflow failed: Could not complete session")>>)
    ELSE Return("True", <<Say("Prescription automation workflow completed successfully!")>>)

\* Step 6: the return value of complete_prescription_session is dropped.
after_complete_session(ok) ==
    Return("True", <<Say("Prescription automation workflow completed successfully!")>>)

\* ---------------------------------------------------------------- the run
Init ==
    /\ pc = "idle"
    /\ drugs = None
    /\ idx = 0
    /\ tick = 0
    /\ mouseInCorner = FALSE
    /\ esignUrl \in EsignUrls
    /\ rv = [conn |-> "none", paste |-> "none", send |-> "none",
             browser |-> "none", complete |-> "none"]
    /\ caught = "none"
    /\ phases = <<>>
    /\ trace = <<>>
    /\ result = "none"
    /\ raised = NoRaise
    /\ provider = NoSession
    /\ probe = NoProbe
    /\ \E ip \in AndroidIps : client = NewClient(ip, AndroidPort)
    /\ rerun = [n |-> 1, pos |-> 1, oracle |-> NoOracle, script |-> <<>>,
                first |-> [trace |-> <<>>, phases |-> <<>>, result |-> "none",
                           caught |-> "none", client |-> client]]

Str(b) == IF b THEN "True" ELSE "False"

\* A step function returned: its events are out, and the workflow's if-chain
\* decides where the run goes.
Continue(events, nxt) ==
    /\ pc' = nxt.pc
    /\ trace' = trace \o events \o nxt.msgs
    /\ phases' = IF nxt.phase = "" THEN phases ELSE Append(phases, nxt.phase)
    /\ result' = nxt.result
    /\ UNCHANGED <<raised, outside>>

\* Inside a step function: the next statement, the events emitted on the way.
Step(next, events) ==
    /\ pc' = next
    /\ trace' = trace \o events
    /\ UNCHANGED <<phases, result, raised, outside>>

\* client.run_complete_workflow(esign_url) is called.
Start ==
    /\ pc = "idle"
    /\ pc' = "test_connection"
    /\ phases' = <<"Connecting">>
    /\ UNCHANGED <<drugs, idx, tick, mouseInCorner, esignUrl, rv, caught, trace, result>>
    /\ UNCHANGED <<raised, outside>>

\* test_connection() when GET /status brings r.
TestConnectionOn(r) ==
    /\ pc = "test_connection"
    /\    /\ Continue(<<Http("GET", "/status", r)>>
                        \o (IF r = "200_nosession"
                            THEN <<Say("No active prescription session")>> ELSE <<>>),
                      after_test_connection(test_connection(r)))
          /\ rv' = [rv EXCEPT !.conn = Str(test_connection(r))]
    /\ UNCHANGED <<drugs, idx, tick, mouseInCorner, esignUrl, caught>>

\* test_connection(): GET /status.
TestConnection == \E r \in StatusResponses : TestConnectionOn(r)

\* for i, drug in enumerate(drugs, 1): print(f"   {i}. {drug}")
Listing(l) == [i \in 1..Len(l) |-> [kind |-> "listed", arg |-> l[i], res |-> "-"]]

\* get_prescription_drugs() when GET /prescription/drugs brings r.
GetDrugsOn(r) ==
    /\ pc = "get_drugs"
    /\    /\ drugs' = get_prescription_drugs(r)
          /\ Continue(<<Http("GET", "/prescription/drugs", r.status)>>
                        \o (IF r.status = "200"
                            THEN <<Say("Retrieved drugs:")>> \o Listing(r.drugs)
                            ELSE <<Say("Failed to get drugs")>>),
                      after_get_prescription_drugs(get_prescription_drugs(r)))
    /\ UNCHANGED <<idx, tick, mouseInCorner, esignUrl, rv, caught>>

\* get_prescription_drugs(): GET /prescription/drugs.
GetDrugs == \E r \in DrugsResponses : GetDrugsOn(r)

\* paste_drugs_to_application(drugs), up to the countdown: its own emptiness check.
PasteEntry ==
    /\ pc = "paste_entry"
    /\ IF IsFalsy(drugs)
       THEN /\ Continue(<<Say("No drugs to paste")>>, after_paste_drugs(FALSE))
            /\ rv' = [rv EXCEPT !.paste = "False"]
            /\ tick' = tick
       ELSE /\ Step("countdown", <<>>)
            /\ rv' = rv
            /\ tick' = CountdownFrom
    /\ UNCHANGED <<drugs, idx, mouseInCorner, esignUrl, caught>>

\* print(f"   {i}..."): the countdown's report of the seconds left.
TickLabel(i) == [kind |-> "tick", arg |-> <<"1...", "2...", "3...", "4...", "5...">>[i], res |-> "-"]

\* A countdown that counts down two seconds per tick.
NextTickSkips(i) == i - 2

\* range(5, 0, -1): the value after i.
NextTick(i) == i - 1

\* One tick of `for i in range(5, 0, -1): print(i); time.sleep(1)`.
Countdown ==
    /\ pc = "countdown"
    /\ tick' = NextTick(tick)
    /\ idx' = IF NextTick(tick) <= 0 THEN 1 ELSE idx
    /\ Step(IF NextTick(tick) <= 0 THEN LoopHead(drugs.list, 1) ELSE "countdown",
            <<TickLabel(tick), Sleep("countdown")>>)
    /\ UNCHANGED <<drugs, mouseInCorner, esignUrl, rv, caught>>

\* time.sleep(self.field_focus_delay)
FocusWait ==
    /\ pc = "focus_wait"
    /\ Step("typewrite", <<Sleep("field_focus_delay")>>)
    /\ UNCHANGED <<drugs, idx, tick, mouseInCorner, esignUrl, rv, caught>>

\* The FailSafeException handler returning False without a word.
PasteRaisesSilently(o) ==
    /\ Continue(IF o = "failsafe" THEN <<>> ELSE <<Say("Error during drug entry")>>,
                after_paste_drugs(paste_drugs_to_application(o)))
    /\ rv' = [rv EXCEPT !.paste = Str(paste_drugs_to_application(o))]
    /\ caught' = IF o = "failsafe" THEN "paste" ELSE caught

\* How paste_drugs_to_application leaves its try block on an exception.
PasteRaises(o) ==
    /\ Continue(<<Say(IF o = "failsafe" THEN "Automation stopped by failsafe"
                      ELSE "Error during drug entry")>>,
                after_paste_drugs(paste_drugs_to_application(o)))
    /\ rv' = [rv EXCEPT !.paste = Str(paste_drugs_to_application(o))]
    /\ caught' = IF o = "failsafe" THEN "paste" ELSE caught

\* pyautogui.typewrite(drug) when the call ends as o.
TypeDrugOn(o) ==
    /\ pc = "typewrite"
    /\ o \in PyAutoGuiCall(mouseInCorner)
    /\    IF o = "ok"
          THEN /\ Step("press_enter", <<Type(DrugAt(drugs.list, idx))>>)
               /\ UNCHANGED <<rv, caught>>
          ELSE PasteRaises(o)
    /\ UNCHANGED <<drugs, idx, tick, mouseInCorner, esignUrl>>

\* pyautogui.typewrite(drug)
TypeDrug == \E o \in PyAutoGuiCall(mouseInCorner) : TypeDrugOn(o)

\* pyautogui.press('enter') when the call ends as o.
PressEnterOn(o) ==
    /\ pc = "press_enter"
    /\ o \in PyAutoGuiCall(mouseInCorner)
    /\    IF o = "ok"
          THEN /\ Step("paste_delay", <<Press("enter")>>)
               /\ UNCHANGED <<rv, caught>>
          ELSE PasteRaises(o)
    /\ UNCHANGED <<drugs, idx, tick, mouseInCorner, esignUrl>>

\* pyautogui.press('enter')
PressEnter == \E o \in PyAutoGuiCall(mouseInCorner) : PressEnterOn(o)

\* time.sleep(self.paste_delay), and back to the loop head.
PasteDelay ==
    /\ pc = "paste_delay"
    /\ idx' = idx + 1
    /\ Step(LoopHead(drugs.list, idx + 1), <<Sleep("paste_delay")>>)
    /\ UNCHANGED <<drugs, tick, mouseInCorner, esignUrl, rv, caught>>

\* The loop is exhausted: paste_drugs_to_application returns True.
PasteReturn ==
    /\ pc = "paste_return"
    /\ Continue(<<Say("Successfully entered all drugs")>>,
                after_paste_drugs(paste_drugs_to_application("ok")))
    /\ rv' = [rv EXCEPT !.paste = Str(paste_drugs_to_application("ok"))]
    /\ UNCHANGED <<drugs, idx, tick, mouseInCorner, esignUrl, caught>>

\* send_prescription_to_health_department(): time.sleep(self.f4_delay)
F4Wait ==
    /\ pc = "f4_wait"
    /\ Step("press_f4", <<Sleep("f4_delay")>>)
    /\ UNCHANGED <<drugs, idx, tick, mouseInCorner, esignUrl, rv, caught>>

\* pyautogui.press('f4') ending as o, and the return of
\* send_prescription_to_health_department.
PressF4On(o) ==
    /\ pc = "press_f4"
    /\ o \in PyAutoGuiCall(mouseInCorner)
    /\    /\ Continue(IF o = "ok" THEN <<Press("f4")>>
                      ELSE IF o = "failsafe" THEN <<Say("Automation stopped by failsafe")>>
                      ELSE <<Say("Error pressing F4")>>,
                      after_send_prescription(send_prescription_to_health_department(o)))
          /\ rv' = [rv EXCEPT !.send = Str(send_prescription_to_health_department(o))]
          /\ caught' = IF o = "failsafe" THEN "send" ELSE caught
    /\ UNCHANGED <<drugs, idx, tick, mouseInCorner, esignUrl>>

\* pyautogui.press('f4'), and the return of send_prescription_to_health_department.
PressF4 == \E o \in PyAutoGuiCall(mouseInCorner) : PressF4On(o)

\* open_browser_for_esignature(): time.sleep(self.browser_delay)
BrowserWait ==
    /\ pc = "browser_wait"
    /\ Step("open_browser", <<Sleep("browser_delay")>>)
    /\ UNCHANGED <<drugs, idx, tick, mouseInCorner, esignUrl, rv, caught>>

\* webbrowser.open(...) ending as o, and the return of
\* open_browser_for_esignature.
OpenBrowserOn(o) ==
    /\ pc = "open_browser"
    /\    /\ Continue(IF o = "opened" THEN <<Open(BrowserTarget(esignUrl))>>
                      ELSE IF o = "not_launched" THEN <<>>
                      ELSE <<Say("Error opening browser")>>,
                      after_open_browser(open_browser_for_esignature(o)))
          /\ rv' = [rv EXCEPT !.browser = Str(open_browser_for_esignature(o))]
    /\ UNCHANGED <<drugs, idx, tick, mouseInCorner, esignUrl, caught>>

\* webbrowser.open(...), and the return of open_browser_for_esignature.
OpenBrowser == \E o \in BrowserOutcomes : OpenBrowserOn(o)

\* complete_prescription_session() when POST /prescription/complete brings r.
CompleteSessionOn(r) ==
    /\ pc = "complete"
    /\    /\ Continue(<<Http("POST", "/prescription/complete", r)>>
                        \o (IF complete_prescription_session(r) THEN <<>>
                            ELSE <<Say("Warning: Could not complete session on Android")>>),
                      after_complete_session(complete_prescription_session(r)))
          /\ rv' = [rv EXCEPT !.complete = Str(complete_prescription_session(r))]
    /\ UNCHANGED <<drugs, idx, tick, mouseInCorner, esignUrl, caught>>

\* complete_prescription_session(): POST /prescription/complete.
CompleteSession == \E r \in CompleteResponses : CompleteSessionOn(r)

\* The user moves the pointer into the fail-safe corner, or out of it.
MoveToCorner ==
    /\ pc \notin {"idle", "done"}
    /\ ~mouseInCorner
    /\ mouseInCorner' = TRUE
    /\ raised' = [pc |-> pc, len |-> Len(trace)]
    /\ UNCHANGED <<pc, drugs, idx, tick, esignUrl, rv, caught, phases, trace, result>>
    /\ UNCHANGED outside

MoveAway ==
    /\ pc \notin {"idle", "done"}
    /\ mouseInCorner
    /\ mouseInCorner' = FALSE
    /\ UNCHANGED <<pc, drugs, idx, tick, esignUrl, rv, caught, phases, trace, result>>
    /\ UNCHANGED <<raised, outside>>

Next ==
    \/ Start
    \/ TestConnection
    \/ GetDrugs
    \/ PasteEntry
    \/ Countdown
    \/ FocusWait
    \/ TypeDrug
    \/ PressEnter
    \/ PasteDelay
    \/ PasteReturn
    \/ F4Wait
    \/ PressF4
    \/ BrowserWait
    \/ OpenBrowser
    \/ CompleteSession
    \/ MoveToCorner
    \/ MoveAway

Spec == Init /\ [][Next]_vars

\* ------------------------------------------------- reading the run's trace
RECURSIVE Pairs(_)
\* The events of entering the list l: type(l[1]), press(enter), type(l[2]), ...
Pairs(l) == IF l = <<>> THEN <<>> ELSE <<Type(Head(l)), Press("enter")>> \o Pairs(Tail(l))

IsPrefix(s, t) == Len(s) <= Len(t) /\ SubSeq(t, 1, Len(s)) = s

IsEntryEvent(e) == e.kind = "type" \/ e = Press("enter")
IsInjected(e) == e.kind \in {"type", "press"}
IsSideEffect(e) == e.kind \in {"type", "press", "open", "POST"}

\* The events the entry loop injected, in order.
EntryEvents == SelectSeq(trace, IsEntryEvent)

Occurs(e) == \E i \in 1..Len(trace) : trace[i] = e
OccursKind(k) == \E i \in 1..Len(trace) : trace[i].kind = k

\* The run's terminal states.  run_complete_workflow returns True (Completed) or
\* False; a False return after a FailSafeException handler ran is Aborted, any
\* other False return is Failed.
Completed == pc = "done" /\ result = "True"
Aborted == pc = "done" /\ result = "False" /\ caught # "none"
Failed == pc = "done" /\ result = "False" /\ caught = "none"

\* ------------------------------------------------------------------ claims

\* C1: in a run with a non-empty fetched list d[1..n] and no abort or injection
\* error (paste_drugs_to_application returned True), the entry loop injected
\* exactly the 2n events type(d[1]), press(enter), ..., type(d[n]), press(enter),
\* in that order; and at every moment what it has injected is a prefix of them.
C1_EntryPairsInOrder ==
    /\ IsPrefix(EntryEvents, Pairs(drugs.list))
    /\ rv.paste = "True" =>
          /\ EntryEvents = Pairs(drugs.list)
          /\ Len(EntryEvents) = 2 * Len(drugs.list)

\* The spec's scenario: both drugs fetched, in this order, and entered.
C1_Witness ==
    /\ rv.paste = "True"
    /\ drugs.list = <<"Amoxicillin 500mg", "Ibuprofen 200mg">>
    /\ EntryEvents = <<Type("Amoxicillin 500mg"), Press("enter"),
                       Type("Ibuprofen 200mg"), Press("enter")>>

\* The number of drugs whose type+separator pair is complete.
EnteredCount == Len(SelectSeq(trace, LAMBDA e : e = Press("enter")))

NoLaterPhaseAfterEntry ==
    /\ ~Occurs(Press("f4"))
    /\ ~OccursKind("open")
    /\ ~OccursKind("POST")
    /\ \A i \in 1..Len(phases) :
          phases[i] \notin {"Submitting", "AwaitingSignature", "Completing"}

AbortedAfterSomeDrug ==
    /\ pc = "done"
    /\ caught = "paste"
    /\ EnteredCount >= 1
    /\ EnteredCount < Len(drugs.list)

FetchedEmpty ==
    /\ Occurs(Http("GET", "/prescription/drugs", "200"))
    /\ drugs = Some(<<>>)

\* C3: when the fetched drug list is empty the run is Failed, no InputInjector
\* operation (typewrite, press of enter or f4) was invoked, the countdown was
\* not started and EnteringDrugs was not entered.
C3_EmptyListFailsUntouched ==
    FetchedEmpty =>
        /\ Failed
        /\ \A i \in 1..Len(trace) : ~IsInjected(trace[i])
        /\ ~Occurs(Sleep("countdown"))
        /\ tick = 0
        /\ \A i \in 1..Len(phases) : phases[i] # "EnteringDrugs"

C3_Witness ==
    /\ FetchedEmpty
    /\ pc = "done"
    /\ Occurs(Say("Workflow failed: No drugs to process"))

CompletionWarning == Say("Warning: Could not complete session on Android")

\* C4: when drug entry and submission succeeded and POST /prescription/complete
\* failed (non-200, timeout or connection error), the run is Completed with the
\* completion warning in its output, and is not Failed.
C4_CompletionFailureIsWarning ==
    (rv.paste = "True" /\ rv.send = "True" /\ rv.complete = "False") =>
        /\ Completed
        /\ Occurs(CompletionWarning)
        /\ ~Failed
        /\ ~Aborted

C4_Witness ==
    /\ rv.paste = "True"
    /\ rv.send = "True"
    /\ rv.complete = "False"
    /\ Occurs(Http("POST", "/prescription/complete", "non200"))
    /\ pc = "done"

\* C5 as stated: every injected drug text is preceded by a status answer that
\* held an active session, or by a successful POST /prescription/start.
C5_Original ==
    \A i \in 1..Len(trace) :
        trace[i].kind = "type" =>
            \E j \in 1..(i - 1) :
                \/ trace[j] = Http("GET", "/status", "200_session")
                \/ trace[j] = Http("POST", "/prescription/start", "200")

\* C6 as stated: every press of the submit key is preceded by an acknowledged
\* POST /prescription/send.
C6_Original ==
    \A i \in 1..Len(trace) :
        trace[i] = Press("f4") =>
            \E j \in 1..(i - 1) : trace[j] = Http("POST", "/prescription/send", "200")

\* An error before EnteringDrugs: the connection test or the drug fetch failed.
FetchFailed ==
    \E i \in 1..Len(trace) :
        /\ trace[i].kind = "GET"
        /\ trace[i].arg = "/prescription/drugs"
        /\ trace[i].res # "200"

\* C7: an error before EnteringDrugs begins (provider unreachable, non-200
\* status answer, failed or non-200 drug fetch) ends the run Failed with no
\* injected event, no browser open and no POST sent.
C7_EarlyErrorNoSideEffect ==
    (rv.conn = "False" \/ FetchFailed) =>
        /\ Failed
        /\ \A i \in 1..Len(trace) : ~IsSideEffect(trace[i])
        /\ \A i \in 1..Len(phases) : phases[i] \in {"Connecting", "FetchingDrugs"}

C7_Witness ==
    /\ pc = "done"
    /\ rv.conn = "True"
    /\ FetchFailed
    /\ mouseInCorner

\* C8 as stated: no side effect (typed text, key press, browser open, POST) is
\* performed by a step taken while the fail-safe is raised.
C8_Original ==
    [][mouseInCorner =>
          \A i \in (Len(trace) + 1)..Len(trace') : ~IsSideEffect(trace'[i])]_vars

PhaseOrder ==
    <<"Connecting", "FetchingDrugs", "EnteringDrugs", "Submitting",
      "AwaitingSignature", "Completing">>

\* GET /prescription/drugs was sent.
DrugsRequested ==
    \E i \in 1..Len(trace) : trace[i].kind = "GET" /\ trace[i].arg = "/prescription/drugs"

\* The phase's step function reported success to run_complete_workflow.
Succeeded(p) ==
    CASE p = "Connecting" -> rv.conn = "True"
      [] p = "FetchingDrugs" -> ~IsFalsy(drugs)
      [] p = "EnteringDrugs" -> rv.paste = "True"
      [] p = "Submitting" -> rv.send = "True"
      [] p = "AwaitingSignature" -> rv.browser = "True"
      [] p = "Completing" -> rv.complete = "True"

\* The phase's step function reported failure.
FailedIn(p) ==
    CASE p = "Connecting" -> rv.conn = "False"
      [] p = "FetchingDrugs" -> DrugsRequested /\ IsFalsy(drugs)
      [] p = "EnteringDrugs" -> rv.paste = "False"
      [] p = "Submitting" -> rv.send = "False"
      [] p = "AwaitingSignature" -> rv.browser = "False"
      [] p = "Completing" -> rv.complete = "False"

\* C9 as stated: the phases are entered in the fixed order, each at most once,
\* and a phase is entered only after every earlier phase succeeded.
C9_Original ==
    /\ IsPrefix(phases, PhaseOrder)
    /\ \A i \in 1..Len(phases) : \A j \in 1..(i - 1) : Succeeded(PhaseOrder[j])

\* C9 as amended: the phases are entered in the fixed order, each at most once,
\* and a phase is entered only after every earlier phase was entered and every
\* earlier phase other than AwaitingSignature succeeded.
C9_LinearPhases ==
    /\ IsPrefix(phases, PhaseOrder)
    /\ \A i \in 1..Len(phases) : \A j \in 1..(i - 1) :
          PhaseOrder[j] # "AwaitingSignature" => Succeeded(PhaseOrder[j])

C9_Witness ==
    /\ phases = PhaseOrder
    /\ rv.browser = "False"
    /\ pc = "done"

\* The phase an effect belongs to (0: the workflow's own messages).
EffectPhase(e) ==
    CASE e.kind = "GET" /\ e.arg = "/status" -> 1
      [] e.kind = "GET" /\ e.arg # "/status" -> 2
      [] e.kind = "type" \/ e = Press("enter") -> 3
      [] e.kind = "sleep" /\ e.arg \in {"countdown", "field_focus_delay", "paste_delay"} -> 3
      [] e.kind = "tick" -> 3
      [] e.kind = "listed" -> 2
      [] e = Press("f4") \/ e = Sleep("f4_delay") -> 4
      [] e.kind = "open" \/ e = Sleep("browser_delay") -> 5
      [] e.kind = "POST" -> 6
      [] OTHER -> 0

\* Nothing of a phase after PhaseOrder[n] was performed or entered.
NothingAfter(n) ==
    /\ \A i \in 1..Len(trace) : EffectPhase(trace[i]) <= n
    /\ Len(phases) <= n

BrowserWarning == Say("Warning: Could not open browser, but continuing...")

\* C10 as stated: a failure in any phase other than Completing ends the run in a
\* terminal non-Completed state with nothing of a later phase performed.
C10_Original ==
    \A n \in 1..5 :
        FailedIn(PhaseOrder[n]) => (pc = "done" /\ ~Completed /\ NothingAfter(n))

\* C10 as amended: a failure in Connecting, FetchingDrugs, EnteringDrugs or
\* Submitting ends the run in a terminal non-Completed state with nothing of a
\* later phase performed; a failure of AwaitingSignature, like one of
\* Completing, is downgraded to a warning: the run goes on to Completing and
\* ends Completed.
C10_FailurePolicy ==
    /\ \A n \in 1..4 :
          FailedIn(PhaseOrder[n]) => (pc = "done" /\ ~Completed /\ NothingAfter(n))
    /\ FailedIn("AwaitingSignature") =>
          /\ Occurs(BrowserWarning)
          /\ phases = PhaseOrder
          /\ pc \in {"complete", "done"}
          /\ pc = "done" => (Completed /\ OccursKind("POST"))

C10_Witness ==
    /\ FailedIn("AwaitingSignature")
    /\ Completed
    /\ ~OccursKind("open")
    /\ Occurs(Http("POST", "/prescription/complete", "200"))

\* What run_complete_workflow prints when it returns False, by the step it is in.
WorkflowFailure ==
    <<Say("Workflow failed: Cannot connect to Android"),
      Say("Workflow failed: No drugs to process"),
      Say("Workflow failed: Could not enter drugs"),
      Say("Workflow failed: Could not send prescription")>>

WorkflowSuccess == Say("Prescription automation workflow completed successfully!")

FailSafeStop == Say("Automation stopped by failsafe")

\* The last line the run printed.
Closing == trace[Len(trace)]

SessionIds == {"rx-1", "rx-2"}
PatientInfos == {"N/A", "Test Patient 123"}

\* The provider's session after it served a request: GET requests read, POST
\* /prescription/complete ends the session.
ProviderHandle(req, p) ==
    IF req.method = "POST" /\ req.path = "/prescription/complete" THEN NoSession ELSE p

\* The 'session' member of the body the provider answers with.
StatusBody(p) == p

\* test_connection asking the completion endpoint instead of the status one.
status_request_completes == [method |-> "POST", path |-> "/prescription/complete"]

\* requests.get(f"{self.base_url}/status", timeout=5)
status_request == [method |-> "GET", path |-> "/status"]

\* What test_connection prints of a 200 body: the session's id, patient and
\* drug count, or that there is no active session.
session_snapshot(body) ==
    IF body.active
    THEN [session |-> TRUE, sessionId |-> body.sessionId,
          patientInfo |-> body.patientInfo, drugCount |-> body.drugCount]
    ELSE [session |-> FALSE, sessionId |-> "-", patientInfo |-> "-", drugCount |-> 0]

\* client.test_connection() called from the menu while no workflow runs; the
\* provider is reachable and answers 200.
MenuTestConnection ==
    /\ pc = "idle"
    /\ provider' = ProviderHandle(status_request, provider)
    /\ probe' = [n |-> IF probe.n = 0 THEN 1 ELSE 2,
                 last |-> session_snapshot(StatusBody(provider)),
                 prev |-> probe.last,
                 dirty |-> FALSE,
                 stable |-> probe.n >= 1 /\ ~probe.dirty]
    /\ UNCHANGED <<pc, drugs, idx, tick, mouseInCorner, esignUrl, rv, caught, phases,
                   trace, result, raised, client, rerun>>

\* The provider's state changes on the phone: a session starts, a drug is
\* scanned, the session ends.
ProviderChanges(p) ==
    /\ provider' = p
    /\ probe' = [probe EXCEPT !.dirty = TRUE]
    /\ UNCHANGED <<pc, drugs, idx, tick, mouseInCorner, esignUrl, rv, caught, phases,
                   trace, result, raised, client, rerun>>

ProviderStart ==
    /\ ~provider.active
    /\ \E id \in SessionIds, who \in PatientInfos :
          ProviderChanges([active |-> TRUE, sessionId |-> id, patientInfo |-> who,
                           drugCount |-> 0])

ProviderScan ==
    /\ provider.active
    /\ provider.drugCount < MaxDrugs
    /\ ProviderChanges([provider EXCEPT !.drugCount = @ + 1])

ProviderEnd ==
    /\ provider.active
    /\ ProviderChanges(NoSession)

StatusNext ==
    \/ MenuTestConnection
    \/ ProviderStart
    \/ ProviderScan
    \/ ProviderEnd

StatusSpec == Init /\ [][StatusNext]_vars

WaitPcs == {"countdown", "focus_wait", "paste_delay", "f4_wait", "browser_wait"}

\* The statements of EnteringDrugs, Submitting, AwaitingSignature and Completing.
AfterEntryPcs ==
    WaitPcs \cup {"paste_entry", "typewrite", "press_enter", "paste_return",
                  "press_f4", "open_browser", "complete"}

\* Nothing was injected after the pointer last entered the corner.
NoInjectionSinceRaised == \A i \in (raised.len + 1)..Len(trace) : ~IsInjected(trace[i])

\* C13 as stated: when the abort gesture is raised during the countdown or
\* another timed wait, the run ends Aborted with no further injected event (no
\* injected event at all when it was raised during the countdown).
C13_Original ==
    raised.pc \in WaitPcs =>
        /\ NoInjectionSinceRaised
        /\ pc = "done" => Aborted
        /\ raised.pc = "countdown" => \A i \in 1..Len(trace) : ~IsInjected(trace[i])

\* C14 as stated: once the abort gesture has been raised in EnteringDrugs,
\* Submitting, AwaitingSignature or Completing, the run never injects again,
\* never ends Completed, and ends Aborted.
C14_Original ==
    raised.pc \in AfterEntryPcs =>
        /\ NoInjectionSinceRaised
        /\ ~Completed
        /\ pc = "done" => Aborted

RECURSIVE EntryStepsOf(_)
\* The four steps of each entry of the list l, entry after entry.
EntryStepsOf(l) ==
    IF l = <<>> THEN <<>>
    ELSE <<Sleep("field_focus_delay"), Type(Head(l)), Press("enter"), Sleep("paste_delay")>>
           \o EntryStepsOf(Tail(l))

IsEntryStep(e) ==
    \/ IsEntryEvent(e)
    \/ e = Sleep("field_focus_delay")
    \/ e = Sleep("paste_delay")

\* The waits and injected events of the entry loop, in order.
EntrySteps == SelectSeq(trace, IsEntryStep)

\* C15: inside EnteringDrugs each entry is wait(field_focus_delay), type(drug),
\* press(enter), wait(paste_delay) in that order, and entry i+1 starts only
\* after the wait(paste_delay) of entry i: at every moment the steps taken are
\* a prefix of the entries' steps laid end to end, and all of them once
\* the entry returned True.
C15_EntryStepsSequential ==
    /\ IsPrefix(EntrySteps, EntryStepsOf(drugs.list))
    /\ rv.paste = "True" => EntrySteps = EntryStepsOf(drugs.list)

\* The second entry has begun: its wait follows the first entry's four steps.
C15_Witness ==
    /\ Len(drugs.list) = 2
    /\ Len(EntrySteps) = 5
    /\ EntrySteps[4] = Sleep("paste_delay")
    /\ EntrySteps[5] = Sleep("field_focus_delay")

\* How many times the request was sent.
Requests(method, path) ==
    Len(SelectSeq(trace, LAMBDA e : e.kind = method /\ e.arg = path))

IsRequest(e) == e.kind \in {"GET", "POST"}

\* The drug list of the answer to GET /prescription/drugs, as it was listed.
FetchedList ==
    LET listed == SelectSeq(trace, LAMBDA e : e.kind = "listed")
    IN  [i \in 1..Len(listed) |-> listed[i].arg]

\* The texts typed so far.
TypedTexts ==
    LET typed == SelectSeq(trace, LAMBDA e : e.kind = "type")
    IN  [i \in 1..Len(typed) |-> typed[i].arg]

RunStep ==
    \/ Start
    \/ TestConnection
    \/ GetDrugs
    \/ PasteEntry
    \/ Countdown
    \/ FocusWait
    \/ TypeDrug
    \/ PressEnter
    \/ PasteDelay
    \/ PasteReturn
    \/ F4Wait
    \/ PressF4
    \/ BrowserWait
    \/ OpenBrowser
    \/ CompleteSession

\* The run is one thread whose every statement returns: a request answers or
\* times out (timeout=5, timeout=10), a sleep ends, an injected call returns or
\* raises.  So the thread's next step is always eventually taken.
FairSpec == Spec /\ WF_vars(RunStep)

\* C17: every run of the workflow terminates: once started it reaches a
\* terminal state (Completed, Aborted or Failed), whatever the drug list, the
\* provider's answers and the pointer's moves.
C17_Terminates == (pc = "test_connection") ~> (Completed \/ Aborted \/ Failed)

\* A run over a full-length list that the user tried to stop late ends.
C17_Witness ==
    /\ Completed
    /\ Len(drugs.list) = MaxDrugs
    /\ raised.pc = "browser_wait"

\* The answer to GET /prescription/drugs was 200.
FetchAnswered == Occurs(Http("GET", "/prescription/drugs", "200"))

\* C18: get_prescription_drugs keeps the empty result distinct from an error:
\* a 200 answer yields the answer's list, the empty one included, as a value
\* that is not None; a non-200 answer, a connection error or a timeout yields
\* None; and no successful outcome equals a failed one.
C18_EmptyDistinctFromError ==
    /\ FetchAnswered => ~drugs.isNone /\ drugs = Some(FetchedList)
    /\ FetchFailed => drugs.isNone /\ drugs = None
    /\ \A ok \in DrugsResponses : \A ko \in DrugsResponses :
          ok.status = "200" /\ ko.status # "200" =>
             /\ get_prescription_drugs(ok) = Some(ok.drugs)
             /\ get_prescription_drugs(ko) = None
             /\ get_prescription_drugs(ok) # get_prescription_drugs(ko)

\* A 200 answer with no drugs was received and kept as an empty list.
C18_Witness ==
    /\ FetchAnswered
    /\ FetchedList = <<>>
    /\ drugs = Some(<<>>)
    /\ drugs # None
    /\ Occurs(Say("Retrieved drugs:"))

\* for i in range(k, 0, -1): print(f"   {i}..."); time.sleep(1), as events.
RECURSIVE CountdownScript(_)
CountdownScript(k) ==
    IF k <= 0 THEN <<>>
    ELSE <<TickLabel(k), Sleep("countdown")>> \o CountdownScript(k - 1)

IsCountdownEvent(e) == e.kind = "tick" \/ e = Sleep("countdown")

\* The countdown's reports and one-second waits so far, in order.
CountdownEvents == SelectSeq(trace, IsCountdownEvent)

\* C19: the countdown reports the seconds left on every tick, strictly
\* decreasing from the configured start (5) down to 1, one report then one
\* second's wait per tick, and every injected event of the run comes after the
\* whole countdown, the wait of its last tick included.
C19_CountdownBeforeInjection ==
    /\ IsPrefix(CountdownEvents, CountdownScript(CountdownFrom))
    /\ \A j \in 1..Len(trace) :
          IsInjected(trace[j]) =>
             SelectSeq(SubSeq(trace, 1, j - 1), IsCountdownEvent)
                = CountdownScript(CountdownFrom)

\* The first drug has just been typed, after the five ticks.
C19_Witness ==
    /\ pc = "press_enter"
    /\ Len(TypedTexts) = 1
    /\ CountdownEvents = CountdownScript(CountdownFrom)
    /\ Len(CountdownEvents) = 2 * CountdownFrom

\* The positions of the trace at which the submit key was pressed.
SubmitPresses == {j \in 1..Len(trace) : trace[j] = Press("f4")}

\* C20: in one run the submit key (F4) is pressed at most once, and only after
\* all n type+separator pairs of the fetched list (n >= 1) were injected, in
\* order; it is never pressed after a partial entry or before the entry loop,
\* and no entry event follows it.
C20_SubmitOnceAfterFullEntry ==
    /\ Cardinality(SubmitPresses) <= 1
    /\ \A j \in SubmitPresses :
          /\ drugs = Some(FetchedList)
          /\ Len(drugs.list) >= 1
          /\ SelectSeq(SubSeq(trace, 1, j - 1), IsEntryEvent) = Pairs(drugs.list)
          /\ EntryEvents = Pairs(drugs.list)
          /\ rv.paste = "True"

\* F4 has just been pressed after a full-length list was entered.
C20_Witness ==
    /\ pc = "browser_wait"
    /\ Cardinality(SubmitPresses) = 1
    /\ Len(drugs.list) = MaxDrugs
    /\ EntryEvents = Pairs(drugs.list)

\* The sessions the provider can hold while a run goes on.
ProviderSessions ==
    {NoSession} \cup
    [active : {TRUE}, sessionId : SessionIds, patientInfo : PatientInfos,
     drugCount : 0..MaxDrugs]

\* The provider's session after it served the run's requests, in order (a
\* request that timed out on the client's side may still have been served).
RECURSIVE ProviderAfter(_, _)
ProviderAfter(events, p) ==
    IF events = <<>> THEN p
    ELSE ProviderAfter(Tail(events),
                       ProviderHandle([method |-> Head(events).kind,
                                       path |-> Head(events).arg], p))

IsComplete(e) == e.kind = "POST" /\ e.arg = "/prescription/complete"

\* C21: POST /prescription/complete is sent at most once per run, and only
\* after the submit key was pressed successfully in that run; a run that ends
\* Failed or Aborted (which can only happen in Connecting, FetchingDrugs,
\* EnteringDrugs or Submitting) has not sent it, so whatever session the
\* provider held is the session it holds after the run.
C21_CompleteOnceAfterSubmit ==
    /\ Requests("POST", "/prescription/complete") <= 1
    /\ \A j \in 1..Len(trace) :
          IsComplete(trace[j]) =>
             /\ \E i \in 1..(j - 1) : trace[i] = Press("f4")
             /\ rv.send = "True"
    /\ (Failed \/ Aborted) =>
          /\ ~OccursKind("POST")
          /\ ~(\E i \in 1..Len(phases) : phases[i] \in {"AwaitingSignature", "Completing"})
          /\ \A p \in ProviderSessions :
                ProviderAfter(SelectSeq(trace, IsRequest), p) = p

\* A run stopped by the fail-safe at the submit key, after a full entry: it
\* ends Aborted in Submitting with both GET requests sent and no POST.
C21_Witness ==
    /\ Aborted
    /\ rv.send = "False"
    /\ EntryEvents = Pairs(drugs.list)
    /\ Len(SelectSeq(trace, IsRequest)) = 2
    /\ ~OccursKind("POST")

\* ------------------------------------- a second run on the same client
\* run_complete_workflow slowing its entry down for the calls to come
\* (self.paste_delay = 2.0 somewhere on its way).
self_after_run_slower(c) == [c EXCEPT !.paste_delay = "2.0"]

\* self as a call of run_complete_workflow leaves it: neither lines 212-258
\* nor the step functions assign a field of self.
self_after_run(c) == c

\* The statements that call pyautogui.
GuiPcs == {"typewrite", "press_enter", "press_f4"}

\* The statements at which the script moves the pointer: the pyautogui calls,
\* which poll it, and the wait before the browser, which nothing polls after.
PointerMoves == GuiPcs \cup {"browser_wait"}

\* What the environment can answer to the statement at p.
InputsAt(p) ==
    CASE p = "test_connection" -> StatusResponses
      [] p = "get_drugs" -> DrugsResponses
      [] p \in GuiPcs -> {"ok", "failsafe", "error"}
      [] p = "open_browser" -> BrowserOutcomes
      [] p = "complete" -> CompleteResponses
      [] OTHER -> {"-"}

\* The answer o is the one for the statement the run is at.
Due(o) == o.at = <<pc, Len(trace)>>

\* The environment's answer o is set for the run's next statement, the pointer
\* where o says; the run itself does not move.
Decide(o, script, pos) ==
    /\ mouseInCorner' = o.mouse
    /\ rerun' = [rerun EXCEPT !.oracle = [o EXCEPT !.at = <<pc, Len(trace)>>],
                              !.script = script, !.pos = pos]
    /\ UNCHANGED <<pc, drugs, idx, tick, esignUrl, rv, caught, phases, trace, result,
                   raised, provider, probe, client>>

\* First run: the environment answers as it likes, and the answer is noted.
ScriptFirstRun ==
    /\ rerun.n = 1
    /\ pc # "done"
    /\ ~Due(rerun.oracle)
    /\ \E i \in InputsAt(pc) :
       \E m \in (IF pc \in PointerMoves THEN BOOLEAN ELSE {mouseInCorner}) :
          /\ pc \in GuiPcs => i \in PyAutoGuiCall(m)
          /\ Decide([at |-> <<pc, Len(trace)>>, input |-> i, mouse |-> m],
                    Append(rerun.script, [at |-> <<pc, Len(trace)>>, input |-> i,
                                          mouse |-> m]),
                    rerun.pos)

\* Second run: the environment gives its k-th answer of the first run to the
\* k-th statement, with the pointer where it was then.
ScriptReplay ==
    /\ rerun.n = 2
    /\ pc # "done"
    /\ ~Due(rerun.oracle)
    /\ rerun.pos <= Len(rerun.script)
    /\ Decide(rerun.script[rerun.pos], rerun.script, rerun.pos + 1)

\* The run's next statement, executed on the answer that is due.
ScriptedStep ==
    /\ Due(rerun.oracle)
    /\ \/ Start
       \/ TestConnectionOn(rerun.oracle.input)
       \/ GetDrugsOn(rerun.oracle.input)
       \/ PasteEntry
       \/ Countdown
       \/ FocusWait
       \/ TypeDrugOn(rerun.oracle.input)
       \/ PressEnterOn(rerun.oracle.input)
       \/ PasteDelay
       \/ PasteReturn
       \/ F4Wait
       \/ PressF4On(rerun.oracle.input)
       \/ BrowserWait
       \/ OpenBrowserOn(rerun.oracle.input)
       \/ CompleteSessionOn(rerun.oracle.input)

\* main's menu, choice '3' once more: client.run_complete_workflow(esign_url)
\* on the same client with the same esign_url.  The call's locals are new; self
\* is what the first call left.
RunAgain ==
    /\ rerun.n = 1
    /\ pc = "done"
    /\ pc' = "idle"
    /\ drugs' = None
    /\ idx' = 0
    /\ tick' = 0
    /\ mouseInCorner' = FALSE
    /\ rv' = [conn |-> "none", paste |-> "none", send |-> "none",
              browser |-> "none", complete |-> "none"]
    /\ caught' = "none"
    /\ phases' = <<>>
    /\ trace' = <<>>
    /\ result' = "none"
    /\ raised' = NoRaise
    /\ client' = self_after_run(client)
    /\ rerun' = [n |-> 2, pos |-> 1, oracle |-> NoOracle, script |-> rerun.script,
                 first |-> [trace |-> trace, phases |-> phases, result |-> result,
                            caught |-> caught, client |-> client]]
    /\ UNCHANGED <<esignUrl, provider, probe>>

RerunNext ==
    \/ ScriptFirstRun
    \/ ScriptedStep
    \/ RunAgain
    \/ ScriptReplay

RerunSpec == Init /\ [][RerunNext]_vars

\* The trace as the outside sees it from a client with fields c: a request
\* goes to c.base_url, a wait lasts what c's timing field says.
Observed(tr, c) ==
    [i \in 1..Len(tr) |->
        IF tr[i].kind \in {"GET", "POST"}
        THEN [tr[i] EXCEPT !.arg = c.base_url \o @]
        ELSE IF tr[i].kind = "sleep" /\ tr[i].arg \in DOMAIN c
        THEN [tr[i] EXCEPT !.res = c[tr[i].arg]]
        ELSE tr[i]]

====
